---- MODULE Spec2Model ----
(***************************************************************************)
(* State-machine model of the ESP32 WiFi sniffer firmware                  *)
(* (esp32_sniffer_main.ino): the promiscuous-mode producer callback, the   *)
(* packet queue, the device table behind dbMutex, and the FreeRTOS tasks   *)
(* processingTask, outputTask, hopTask and serialInputTask.                *)
(*                                                                         *)
(* One behaviour is one boot of the firmware.  Every task is a small       *)
(* program counter machine; one action is one step of one task between two *)
(* points where the scheduler may switch tasks.                            *)
(***************************************************************************)
EXTENDS Integers, Sequences, FiniteSets, TLC

\* ------------------------------------------------------------------------
\* Program constants
\* ------------------------------------------------------------------------
PURGE_INTERVAL == 10000
QUEUE_SIZE == 64
HEARTBEAT_INTERVAL == 5000
HOP_MIN == 10
HOP_MAX == 5000
HOP_DEFAULT == 50
MAX_CHANNEL == 13
MIN_FRAME_LEN == 24
ADDR_OFFSET == 10
MAC_LEN == 6
HOP_CMD_LEN == 9

\* millis() is an unsigned long: 32 bits on the ESP32.  A 32-bit value is
\* kept as its two 16-bit halves <<high, low>>, so that no intermediate
\* result leaves the range of the model checker's integers.
HalfWord == 2^16
U32(n) == <<n \div HalfWord, n % HalfWord>>
U32Add(a, b) ==
    LET low == a[2] + b[2]
    IN <<(a[1] + b[1] + (low \div HalfWord)) % HalfWord, low % HalfWord>>
U32Sub(a, b) ==
    LET low == a[2] - b[2]
        borrow == IF low < 0 THEN 1 ELSE 0
    IN <<(a[1] - b[1] - borrow + HalfWord) % HalfWord,
         (low + HalfWord) % HalfWord>>
\* a > b, a >= b for 32-bit values.
U32Gt(a, b) == a[1] > b[1] \/ (a[1] = b[1] /\ a[2] > b[2])
U32Ge(a, b) == a = b \/ U32Gt(a, b)

\* typeCode values of RawPacket and Device (0=Unknown, 1=Router, 2=Station,
\* 3=Deauth).
UNKNOWN == 0
ROUTER == 1
STATION == 2
DEAUTH == 3
TypeCodes == {UNKNOWN, ROUTER, STATION, DEAUTH}

\* Frame-control bytes the callback tests for.
FC_BEACON == 128
FC_PROBE_REQ == 64
FC_DEAUTH == 192
FC_TYPE_MASK == 12
FC_TYPE_DATA == 8

\* ------------------------------------------------------------------------
\* Bounds of the model
\* ------------------------------------------------------------------------
\* Events from outside the tasks in one boot: frames delivered by the radio,
\* clock advances, console lines read, and expiries of hopTask's delay.
MaxEvents == 3

\* ------------------------------------------------------------------------
\* Inputs
\* ------------------------------------------------------------------------
\* Two hardware addresses; MacB has octets below 0x10.
MacA == <<170, 187, 204, 221, 238, 255>>
MacB == <<0, 17, 34, 51, 68, 5>>
Macs == {MacA, MacB}

\* Amounts of time that may pass between two steps: one millisecond, one
\* purge interval, and one millisecond more than that.
TickSteps == {U32(1), U32(PURGE_INTERVAL), U32(PURGE_INTERVAL + 1)}

\* Signal strengths reported by the radio.
Rssis == {-40, -55}

\* Captured frames as the callback reads them: rx_ctrl.sig_len,
\* rx_ctrl.rssi, payload[0] (frame control) and payload[10..15].
\* MacA is seen with every frame kind the callback tells apart, MacB with a
\* data frame and a beacon; one frame is shorter than a header, one ends
\* before the last address byte (its addr is what the buffer holds there).
Frame(len, strength, control, address) ==
    [sig_len |-> len, rssi |-> strength, fc |-> control, addr |-> address]
Frames ==
    {Frame(MIN_FRAME_LEN, -40, FC_BEACON, MacA),
     Frame(MIN_FRAME_LEN, -55, FC_PROBE_REQ, MacA),
     Frame(MIN_FRAME_LEN, -40, FC_DEAUTH, MacA),
     Frame(MIN_FRAME_LEN, -55, 0, MacA),
     Frame(MIN_FRAME_LEN, -55, FC_TYPE_DATA, MacB),
     Frame(MIN_FRAME_LEN, -40, FC_BEACON, MacB),
     Frame(MIN_FRAME_LEN - 1, -40, FC_BEACON, MacB),
     Frame(ADDR_OFFSET + MAC_LEN - 1, -55, FC_PROBE_REQ, MacA)}

\* ------------------------------------------------------------------------
\* Helpers
\* ------------------------------------------------------------------------
\* x & m for bytes, bit by bit.
RECURSIVE BitAnd(_, _)
BitAnd(x, m) ==
    IF x = 0 \/ m = 0 THEN 0
    ELSE (x % 2) * (m % 2) + 2 * BitAnd(x \div 2, m \div 2)

\* String(b, HEX): lowercase hexadecimal without leading zeros.
HexDigits ==
    <<"0","1","2","3","4","5","6","7","8","9","a","b","c","d","e","f">>
StringHex(b) ==
    IF b < 16 THEN <<HexDigits[b + 1]>>
    ELSE <<HexDigits[(b \div 16) + 1], HexDigits[(b % 16) + 1]>>

\* macToString: the text is kept as a sequence of characters.
RECURSIVE MacLoop(_, _, _)
MacLoop(mac, i, s) ==
    IF i > 6 THEN s
    ELSE LET pad == IF mac[i] < 16 THEN <<"0">> ELSE <<>>
             sep == IF i < 6 THEN <<":">> ELSE <<>>
         IN MacLoop(mac, i + 1, s \o pad \o StringHex(mac[i]) \o sep)
macToString(mac) == MacLoop(mac, 1, <<>>)

\* The type text outputTask prints for a typeCode.
TypeName(typeCode) ==
    IF typeCode = ROUTER THEN "ROUTER"
    ELSE IF typeCode = STATION THEN "STATION"
    ELSE IF typeCode = DEAUTH THEN "DEAUTH"
    ELSE "Unknown"

\* The callback's decision list on the frame-control byte.
ClassifyFrame(frameControl) ==
    IF frameControl = FC_BEACON THEN ROUTER
    ELSE IF frameControl = FC_PROBE_REQ THEN STATION
    ELSE IF frameControl = FC_DEAUTH THEN DEAUTH
    ELSE IF BitAnd(frameControl, FC_TYPE_MASK) = FC_TYPE_DATA THEN STATION
    ELSE UNKNOWN

\* The decision list of the callback of the BLE build: no deauthentication
\* rule.
ClassifyFrameBle(frameControl) ==
    IF frameControl = FC_BEACON THEN ROUTER
    ELSE IF frameControl = FC_PROBE_REQ THEN STATION
    ELSE IF BitAnd(frameControl, FC_TYPE_MASK) = FC_TYPE_DATA THEN STATION
    ELSE UNKNOWN

\* millis() - t in unsigned long arithmetic.
ElapsedSince(millis, t) == U32Sub(millis, t)

\* ------------------------------------------------------------------------
\* Console text.  A String is a sequence of one-character strings.
\* ------------------------------------------------------------------------
UpperCase ==
    <<"A","B","C","D","E","F","G","H","I","J","K","L","M","N","O","P","Q","R","S","T","U","V","W","X","Y","Z">>
LowerCase ==
    <<"a","b","c","d","e","f","g","h","i","j","k","l","m","n","o","p","q","r","s","t","u","v","w","x","y","z">>
DecDigits == <<"0","1","2","3","4","5","6","7","8","9">>
IsSpace(c) == c \in {" ", "\t", "\r", "\n"}
IsDigit(c) == \E i \in 1..10 : DecDigits[i] = c
DigitVal(c) == (CHOOSE i \in 1..10 : DecDigits[i] = c) - 1
ToLower(c) ==
    IF \E i \in 1..26 : UpperCase[i] = c
    THEN LowerCase[CHOOSE i \in 1..26 : UpperCase[i] = c]
    ELSE c

\* String::trim: drops leading and trailing whitespace.
RECURSIVE TrimLeft(_)
TrimLeft(s) ==
    IF s # <<>> /\ IsSpace(Head(s)) THEN TrimLeft(Tail(s)) ELSE s
RECURSIVE TrimRight(_)
TrimRight(s) ==
    IF s # <<>> /\ IsSpace(s[Len(s)])
    THEN TrimRight(SubSeq(s, 1, Len(s) - 1))
    ELSE s
Trim(s) == TrimRight(TrimLeft(s))

\* String::equalsIgnoreCase, String::startsWith, String::substring(from).
equalsIgnoreCase(s, t) ==
    /\ Len(s) = Len(t)
    /\ \A i \in 1..Len(s) : ToLower(s[i]) = ToLower(t[i])
startsWith(s, prefix) ==
    /\ Len(s) >= Len(prefix)
    /\ SubSeq(s, 1, Len(prefix)) = prefix
substring(s, from) ==
    IF from >= Len(s) THEN <<>> ELSE SubSeq(s, from + 1, Len(s))

\* String::toInt (atol): optional whitespace, optional sign, then decimal
\* digits up to the first other character; 0 when there is no digit.
RECURSIVE ParseDigits(_, _)
ParseDigits(s, acc) ==
    IF s # <<>> /\ IsDigit(Head(s))
    THEN ParseDigits(Tail(s), 10 * acc + DigitVal(Head(s)))
    ELSE acc
toInt(s) ==
    LET t == TrimLeft(s)
    IN IF t = <<>> THEN 0
       ELSE IF Head(t) = "-" THEN 0 - ParseDigits(Tail(t), 0)
       ELSE IF Head(t) = "+" THEN ParseDigits(Tail(t), 0)
       ELSE ParseDigits(t, 0)

\* The command words serialInputTask compares with.
WordClear == <<"C", "L", "E", "A", "R">>
WordRestart == <<"R", "E", "S", "T", "A", "R", "T">>
WordHopSpeed == <<"H", "O", "P", "_", "S", "P", "E", "E", "D">>

\* Lines a user may type (without the terminating newline).
LineClear ==
    <<"C","L","E","A","R">>
LineClearLower ==
    <<" ","c","l","e","a","r","\r">>
LineRestart ==
    <<"R","E","S","T","A","R","T">>
LineHopMin ==
    <<"H","O","P","_","S","P","E","E","D"," ","1","0">>
LineHopMax ==
    <<"H","O","P","_","S","P","E","E","D"," ","5","0","0","0">>
LineHopLow ==
    <<"H","O","P","_","S","P","E","E","D"," ","9">>
LineHopHigh ==
    <<"H","O","P","_","S","P","E","E","D"," ","5","0","0","1">>
LineHopNegative ==
    <<"H","O","P","_","S","P","E","E","D"," ","-","2","0">>
LineHopText ==
    <<"H","O","P","_","S","P","E","E","D"," ","a","b","c">>
LineHopBare ==
    <<"H","O","P","_","S","P","E","E","D">>
LineRainbow ==
    <<"R","A","I","N","B","O","W">>
LineHopLower ==
    <<"h","o","p","_","s","p","e","e","d"," ","1","0","0">>
CommandLines ==
    {LineClear, LineClearLower, LineRestart, LineHopMin,
     LineHopMax, LineHopLow, LineHopHigh, LineHopNegative,
     LineHopText, LineHopBare, LineRainbow, LineHopLower}

\* The branch of serialInputTask's if / else-if chain a trimmed line takes.
IsClearCmd(cmd) == equalsIgnoreCase(cmd, WordClear)
IsRestartCmd(cmd) ==
    ~IsClearCmd(cmd) /\ equalsIgnoreCase(cmd, WordRestart)
IsHopSpeedCmd(cmd) ==
    ~IsClearCmd(cmd) /\ ~IsRestartCmd(cmd) /\ startsWith(cmd, WordHopSpeed)
IsOtherCmd(cmd) ==
    ~IsClearCmd(cmd) /\ ~IsRestartCmd(cmd) /\ ~IsHopSpeedCmd(cmd)

\* val = cmd.substring(9).toInt()
HopSpeedValue(cmd) == toInt(substring(cmd, HOP_CMD_LEN))

\* Faulty variant of HopSpeedValid: a range test that excludes both ends.
HopSpeedValidExclusive(val) == val > HOP_MIN /\ val < HOP_MAX

\* The range test on the HOP_SPEED value.
HopSpeedValid(val) == val >= HOP_MIN /\ val <= HOP_MAX

\* ------------------------------------------------------------------------
\* State
\* ------------------------------------------------------------------------
VARIABLES
    foundDevices,    \* std::vector<Device>: sequence of device records
    packetQueue,     \* FreeRTOS queue of RawPacket, head first
    dbMutex,         \* holder of the mutex: "none" or a task name
    hopInterval,     \* period of hopTask in milliseconds
    now,             \* the value millis() returns
    procPc,          \* processingTask: position
    pkt,             \* processingTask: the RawPacket it received
    d,               \* processingTask: index of the record that matched, or 0
    outPc,           \* outputTask: position
    lastHeartbeat,   \* outputTask: millis() of the last heartbeat
    it,              \* outputTask: iterator, as an index into foundDevices
    line,            \* device objects of the unfinished "devices" line on Serial
    currentChannel,  \* hopTask: next channel to request
    radioChannel,    \* channel last requested with esp_wifi_set_channel
    serPc,           \* serialInputTask: position
    cmd,             \* serialInputTask: the trimmed line it is handling
    serialMsg,       \* the "msg" line the last step wrote to Serial, or <<>>
    nEvents,         \* outside events in this boot (bounded by MaxEvents)
    held,            \* history: per address, the typeCodes its records have
                     \* held since the last CLEAR
    sinceClear,      \* history: "none", or what happened since the last CLEAR
                     \* of a table with records that no snapshot has followed
                     \* yet: "clean" (no record inserted), "dirty" (one was)
    applied,         \* history: per address, typeCode and rssi of the packets
                     \* applied to its present record, oldest first
    dropped,         \* history: packets xQueueSendFromISR refused in this boot
    trail,           \* history: the send attempts of the callback, oldest
                     \* first, from the one after the attempt that produced
                     \* the packet received last
    atTake,          \* history: the table as it was when outputTask took the
                     \* mutex for the pass under way, <<>> between passes
    fresh,           \* history: address and rssi of the last observation
                     \* applied per address since the last snapshot ended;
                     \* a CLEAR since then marks it and forgets the rssi
    truncated,       \* history: frames of this boot that ended before the
                     \* last address byte
    deviceConnected, \* BLE build: a central is connected
    txValue          \* BLE build: the value last notified on the TX
                     \* characteristic, <<>> before the first

procVars == <<procPc, pkt, d>>
outVars == <<outPc, lastHeartbeat, it, line>>
hopVars == <<currentChannel, radioChannel>>
serVars == <<serPc, cmd>>
bleVars == <<deviceConnected, txValue>>
histVars ==
    <<held, sinceClear, applied, dropped, trail, atTake, fresh, truncated>>
vars ==
    <<foundDevices, packetQueue, dbMutex, hopInterval, now, procVars,
      outVars, hopVars, serVars, serialMsg, nEvents, bleVars, histVars>>

\* What the history keeps of one send attempt: the frame, the packet made
\* of it, and whether the queue refused it.
Attempt(f, p, full) == [frame |-> f, pkt |-> p, refused |-> full]

\* The data frame of a burst that fills the queue.
BurstFrame == Frame(MIN_FRAME_LEN, -55, FC_TYPE_DATA, MacB)

\* The value of processingTask's pkt while it holds no received packet.
NoPacket == [mac |-> <<>>, rssi |-> 0, typeCode |-> UNKNOWN]

\* State with millis() at `millis` in which the table is empty, the mutex is
\* free, every task is at the top of its loop, the queue holds `queue`,
\* `events` outside events have been counted and hopTask has made `requests`
\* channel requests.
IdleAfterHops(millis, queue, events, requests) ==
    /\ foundDevices = <<>>
    /\ packetQueue = queue
    /\ dbMutex = "none"
    /\ hopInterval = HOP_DEFAULT
    /\ now = millis
    /\ procPc = "recv"
    /\ pkt = NoPacket
    /\ d = 0
    /\ outPc = "delay"
    /\ lastHeartbeat = millis
    /\ it = 1
    /\ line = <<>>
    /\ currentChannel = (requests % MAX_CHANNEL) + 1
    /\ radioChannel =
          IF requests = 0 THEN 1 ELSE ((requests - 1) % MAX_CHANNEL) + 1
    /\ serPc = "poll"
    /\ cmd = <<>>
    /\ serialMsg = <<>>
    /\ nEvents = events
    /\ held = [m \in Macs |-> {}]
    /\ sinceClear = "none"
    /\ applied = [m \in Macs |-> <<>>]
    /\ dropped = 0
    /\ trail =
          [k \in 1..Len(queue) |-> Attempt(BurstFrame, queue[k], FALSE)]
    /\ atTake = <<>>
    /\ fresh = {}
    /\ truncated = 0
    /\ deviceConnected = FALSE
    /\ txValue = <<>>

\* The same before hopTask's first request.
Idle(millis, queue, events) == IdleAfterHops(millis, queue, events, 0)

\* The state after setup().
Init == Idle(U32(0), <<>>, 0)

\* ------------------------------------------------------------------------
\* FreeRTOS primitives
\* ------------------------------------------------------------------------
\* Faulty variant of MutexFree: a take that does not wait for the holder.
MutexFreeNoWait(task) == TRUE

\* xSemaphoreTake(dbMutex, portMAX_DELAY) returns for `task` only when no
\* task holds the mutex.
MutexFree(task) == dbMutex = "none"

\* Faulty variant of QueueSend: a send that appends even to a full queue.
QueueSendAlways(q, item) == Append(q, item)

\* Faulty variant of QueueSend: a send that puts the item at the head.
QueueSendFront(q, item) == IF Len(q) < QUEUE_SIZE THEN <<item>> \o q ELSE q

\* xQueueSendFromISR: appends when there is room, drops the item otherwise.
QueueSend(q, item) == IF Len(q) < QUEUE_SIZE THEN Append(q, item) ELSE q

\* ------------------------------------------------------------------------
\* Time
\* ------------------------------------------------------------------------
Tick ==
    /\ nEvents < MaxEvents
    /\ \E step \in TickSteps : now' = U32Add(now, step)
    /\ nEvents' = nEvents + 1
    /\ serialMsg' = <<>>
    /\ UNCHANGED <<foundDevices, packetQueue, dbMutex, hopInterval, procVars,
                   outVars, hopVars, serVars, bleVars, histVars>>

\* ------------------------------------------------------------------------
\* wifi_promiscuous_rx_cb (producer, interrupt context)
\* ------------------------------------------------------------------------
\* The RawPacket the callback builds from a frame.
MakePacket(frame) ==
    [mac |-> frame.addr, rssi |-> frame.rssi,
     typeCode |-> ClassifyFrame(frame.fc)]

\* The callback returns before classifying a frame shorter than a header.
FrameAccepted(frame) == ~(frame.sig_len < MIN_FRAME_LEN)

\* The frame ends before the last of the address bytes the callback copies.
Truncated(frame) == frame.sig_len < ADDR_OFFSET + MAC_LEN

RxCallback ==
    /\ nEvents < MaxEvents
    /\ \E frame \in Frames :
          IF FrameAccepted(frame)
          THEN /\ packetQueue' = QueueSend(packetQueue, MakePacket(frame))
               /\ dropped' =
                     IF Len(packetQueue') = Len(packetQueue)
                     THEN dropped + 1
                     ELSE dropped
               /\ trail' =
                     Append(trail,
                            Attempt(frame, MakePacket(frame),
                                    Len(packetQueue') = Len(packetQueue)))
               /\ truncated' =
                     IF Truncated(frame) THEN truncated + 1 ELSE truncated
          ELSE /\ packetQueue' = packetQueue
               /\ dropped' = dropped
               /\ trail' = trail
               /\ truncated' =
                     IF Truncated(frame) THEN truncated + 1 ELSE truncated
    /\ nEvents' = nEvents + 1
    /\ serialMsg' = <<>>
    /\ UNCHANGED <<foundDevices, dbMutex, hopInterval, now, procVars, outVars,
                   hopVars, serVars, bleVars, held, sinceClear, applied,
                   atTake, fresh>>

\* ------------------------------------------------------------------------
\* processingTask (consumer)
\* ------------------------------------------------------------------------
\* What the history keeps of a packet applied to a record.
Observation(p) == [typeCode |-> p.typeCode, rssi |-> p.rssi]

\* The history of last observations once packet p has been applied.
Refreshed(last, p) ==
    {e \in last : e.mac # p.mac}
        \cup {[mac |-> p.mac, rssi |-> p.rssi, cleared |-> FALSE]}

\* Faulty variant of FindDevice: a search that looks at the first record only.
FindDeviceFirstOnly(devices, mac) ==
    IF devices # <<>> /\ devices[1].mac = mac THEN 1 ELSE 0

\* Index of the first record with the address, 0 when there is none: the
\* for loop with memcmp and break.
FindDevice(devices, mac) ==
    IF \E i \in 1..Len(devices) : devices[i].mac = mac
    THEN CHOOSE i \in 1..Len(devices) :
            /\ devices[i].mac = mac
            /\ \A j \in 1..(i - 1) : devices[j].mac # mac
    ELSE 0

\* Faulty variant of Escalate: the greater of the two numeric typeCodes.
EscalateNumeric(old, new) == IF new > old THEN new ELSE old

\* Faulty variant of Escalate: without the test that keeps DEAUTH (the rule
\* of the firmware before it knew DEAUTH, with the DEAUTH branch added).
EscalateNoSticky(old, new) ==
    IF new = DEAUTH THEN DEAUTH
    ELSE IF old = UNKNOWN \/ new = ROUTER THEN new
    ELSE old

\* The typeCode a known record gets from a packet's typeCode.
Escalate(old, new) ==
    IF new = DEAUTH THEN DEAUTH
    ELSE IF old # DEAUTH /\ (old = UNKNOWN \/ new = ROUTER) THEN new
    ELSE old

\* The attempts that remain once packet p has been received: those after the
\* first attempt that was not refused and sent p; all of them when there is
\* no such attempt.
TrailAfter(attempts, p) ==
    LET sent == {k \in 1..Len(attempts) :
                    ~attempts[k].refused /\ attempts[k].pkt = p}
    IN IF sent = {} THEN attempts
       ELSE LET first == CHOOSE k \in sent : \A j \in sent : k <= j
            IN SubSeq(attempts, first + 1, Len(attempts))

\* xQueueReceive blocks until the queue holds a packet.
ProcReceive ==
    /\ procPc = "recv"
    /\ packetQueue # <<>>
    /\ pkt' = Head(packetQueue)
    /\ packetQueue' = Tail(packetQueue)
    /\ trail' = TrailAfter(trail, pkt')
    /\ procPc' = "take"
    /\ serialMsg' = <<>>
    /\ UNCHANGED <<foundDevices, dbMutex, hopInterval, now, d, outVars,
                   hopVars, serVars, nEvents, bleVars, held, sinceClear,
                   applied, dropped, atTake, fresh, truncated>>

ProcTake ==
    /\ procPc = "take"
    /\ MutexFree("proc")
    /\ dbMutex' = "proc"
    /\ procPc' = "scan"
    /\ serialMsg' = <<>>
    /\ UNCHANGED <<foundDevices, packetQueue, hopInterval, now, pkt, d,
                   outVars, hopVars, serVars, nEvents, bleVars, histVars>>

\* The loop up to the matching record, or to the end of the vector.
ProcScan ==
    /\ procPc = "scan"
    /\ d' = FindDevice(foundDevices, pkt.mac)
    /\ procPc' = IF d' # 0 THEN "rssi" ELSE "push"
    /\ serialMsg' = <<>>
    /\ UNCHANGED <<foundDevices, packetQueue, dbMutex, hopInterval, now, pkt,
                   outVars, hopVars, serVars, nEvents, bleVars, histVars>>

\* Faulty variant of ProcWriteRssi: the rssi is written only when the packet's
\* typeCode is the one the record ends with.
ProcWriteRssiIfEscalates ==
    /\ procPc = "rssi"
    /\ d \in 1..Len(foundDevices)
    /\ foundDevices' =
          IF Escalate(foundDevices[d].typeCode, pkt.typeCode) = pkt.typeCode
          THEN [foundDevices EXCEPT ![d].rssi = pkt.rssi]
          ELSE foundDevices
    /\ procPc' = "seen"
    /\ serialMsg' = <<>>
    /\ UNCHANGED <<packetQueue, dbMutex, hopInterval, now, pkt, d, outVars,
                   hopVars, serVars, nEvents, bleVars, histVars>>

\* d.rssi = pkt.rssi
ProcWriteRssi ==
    /\ procPc = "rssi"
    /\ d \in 1..Len(foundDevices)
    /\ foundDevices' = [foundDevices EXCEPT ![d].rssi = pkt.rssi]
    /\ procPc' = "seen"
    /\ serialMsg' = <<>>
    /\ UNCHANGED <<packetQueue, dbMutex, hopInterval, now, pkt, d, outVars,
                   hopVars, serVars, nEvents, bleVars, histVars>>

\* d.lastSeen = millis()
ProcWriteSeen ==
    /\ procPc = "seen"
    /\ d \in 1..Len(foundDevices)
    /\ foundDevices' = [foundDevices EXCEPT ![d].lastSeen = now]
    /\ procPc' = "type"
    /\ serialMsg' = <<>>
    /\ UNCHANGED <<packetQueue, dbMutex, hopInterval, now, pkt, d, outVars,
                   hopVars, serVars, nEvents, bleVars, histVars>>

\* The typeCode update of a known record.
ProcWriteType ==
    /\ procPc = "type"
    /\ d \in 1..Len(foundDevices)
    /\ foundDevices' =
          [foundDevices EXCEPT
              ![d].typeCode = Escalate(foundDevices[d].typeCode, pkt.typeCode)]
    /\ applied' =
          [applied EXCEPT
              ![foundDevices[d].mac] = Append(@, Observation(pkt))]
    /\ held' =
          [held EXCEPT
              ![foundDevices[d].mac] = @ \cup {foundDevices'[d].typeCode}]
    /\ fresh' = Refreshed(fresh, pkt)
    /\ procPc' = "give"
    /\ serialMsg' = <<>>
    /\ UNCHANGED <<packetQueue, dbMutex, hopInterval, now, pkt, d, outVars,
                   hopVars, serVars, nEvents, bleVars, sinceClear, dropped,
                   trail, atTake, truncated>>

\* Faulty variant of NewDevice: the rssi is not copied from the packet.
NewDeviceNoRssi(p, millis) ==
    [mac |-> p.mac, rssi |-> 0, lastSeen |-> millis, typeCode |-> p.typeCode]

\* The record of a first-seen address.
NewDevice(p, millis) ==
    [mac |-> p.mac, rssi |-> p.rssi, lastSeen |-> millis,
     typeCode |-> p.typeCode]

\* Faulty variant of ProcPush: the new record is not entered.
ProcPushSkipped ==
    /\ procPc = "push"
    /\ foundDevices' = foundDevices
    /\ procPc' = "give"
    /\ serialMsg' = <<>>
    /\ UNCHANGED <<packetQueue, dbMutex, hopInterval, now, pkt, d, outVars,
                   hopVars, serVars, nEvents, bleVars, histVars>>

\* if (!known) { ... foundDevices.push_back(newDevice); }
ProcPush ==
    /\ procPc = "push"
    /\ foundDevices' = Append(foundDevices, NewDevice(pkt, now))
    /\ applied' = [applied EXCEPT ![pkt.mac] = <<Observation(pkt)>>]
    /\ held' = [held EXCEPT ![pkt.mac] = @ \cup {pkt.typeCode}]
    /\ fresh' = Refreshed(fresh, pkt)
    /\ sinceClear' = IF sinceClear = "clean" THEN "dirty" ELSE sinceClear
    /\ procPc' = "give"
    /\ serialMsg' = <<>>
    /\ UNCHANGED <<packetQueue, dbMutex, hopInterval, now, pkt, d, outVars,
                   hopVars, serVars, nEvents, bleVars, dropped, trail, atTake,
                   truncated>>

\* Faulty variant of ProcGive: back to xQueueReceive without xSemaphoreGive.
ProcGiveKeepsLock ==
    /\ procPc = "give"
    /\ dbMutex' = dbMutex
    /\ pkt' = NoPacket
    /\ d' = 0
    /\ procPc' = "recv"
    /\ serialMsg' = <<>>
    /\ UNCHANGED <<foundDevices, packetQueue, hopInterval, now, outVars,
                   hopVars, serVars, nEvents, bleVars, histVars>>

\* xSemaphoreGive, then back to xQueueReceive.  The reference d ends with the
\* loop; pkt is the buffer the next xQueueReceive fills and is not read
\* before that, so its old content is dropped here.
ProcGive ==
    /\ procPc = "give"
    /\ dbMutex' = "none"
    /\ pkt' = NoPacket
    /\ d' = 0
    /\ procPc' = "recv"
    /\ serialMsg' = <<>>
    /\ UNCHANGED <<foundDevices, packetQueue, hopInterval, now, outVars,
                   hopVars, serVars, nEvents, bleVars, histVars>>

\* ------------------------------------------------------------------------
\* outputTask (heartbeat, snapshot, purge)
\* ------------------------------------------------------------------------
\* The object printed for one record.
DeviceJson(dev, timeSince) ==
    [mac |-> macToString(dev.mac), rssi |-> dev.rssi,
     type |-> TypeName(dev.typeCode), seen_ms |-> timeSince]

\* Faulty variant of IsStale: a purge test with twice the threshold.
IsStaleLate(timeSince) == U32Gt(timeSince, U32(2 * PURGE_INTERVAL))

\* Faulty variant of IsStale: stale from the threshold on.
IsStaleFromThreshold(timeSince) == U32Ge(timeSince, U32(PURGE_INTERVAL))

\* The purge test on a record's age.
IsStale(timeSince) == U32Gt(timeSince, U32(PURGE_INTERVAL))

\* std::vector::erase(it): the later records move up by one.
Erase(devices, i) ==
    SubSeq(devices, 1, i - 1) \o SubSeq(devices, i + 1, Len(devices))

\* The heartbeat test.
HeartbeatDue(millis, last) ==
    U32Gt(ElapsedSince(millis, last), U32(HEARTBEAT_INTERVAL))

\* vTaskDelay(PRINT_INTERVAL) returns; the heartbeat is printed when due.
OutWake ==
    /\ outPc = "delay"
    /\ IF HeartbeatDue(now, lastHeartbeat)
       THEN /\ serialMsg' = <<"HEARTBEAT">>
            /\ lastHeartbeat' = now
       ELSE /\ serialMsg' = <<>>
            /\ lastHeartbeat' = lastHeartbeat
    /\ outPc' = "take"
    /\ UNCHANGED <<foundDevices, packetQueue, dbMutex, hopInterval, now,
                   procVars, it, line, hopVars, serVars, nEvents, bleVars,
                   histVars>>

OutTake ==
    /\ outPc = "take"
    /\ MutexFree("out")
    /\ dbMutex' = "out"
    /\ atTake' = foundDevices
    /\ outPc' = "begin"
    /\ serialMsg' = <<>>
    /\ UNCHANGED <<foundDevices, packetQueue, hopInterval, now, procVars,
                   lastHeartbeat, it, line, hopVars, serVars, nEvents,
                   bleVars, held, sinceClear, applied, dropped, trail, fresh,
                   truncated>>

\* Serial.print("{\"devices\":["); it = foundDevices.begin()
OutBegin ==
    /\ outPc = "begin"
    /\ line' = <<>>
    /\ it' = 1
    /\ outPc' = "loop"
    /\ serialMsg' = <<>>
    /\ UNCHANGED <<foundDevices, packetQueue, dbMutex, hopInterval, now,
                   procVars, lastHeartbeat, hopVars, serVars, nEvents,
                   bleVars, histVars>>

\* Faulty variant of OutRecord: the iterator steps on after an erase too.
OutRecordStepsAfterErase ==
    /\ outPc = "loop"
    /\ it \in 1..Len(foundDevices)
    /\ LET timeSince == ElapsedSince(now, foundDevices[it].lastSeen)
       IN /\ line' = Append(line, DeviceJson(foundDevices[it], timeSince))
          /\ IF IsStale(timeSince)
             THEN /\ foundDevices' = Erase(foundDevices, it)
                  /\ applied' =
                        [applied EXCEPT ![foundDevices[it].mac] = <<>>]
             ELSE /\ foundDevices' = foundDevices
                  /\ applied' = applied
    /\ it' = it + 1
    /\ serialMsg' = <<>>
    /\ UNCHANGED <<packetQueue, dbMutex, hopInterval, now, procVars, outPc,
                   lastHeartbeat, hopVars, serVars, nEvents, bleVars, held,
                   sinceClear, dropped, trail, atTake, fresh, truncated>>

\* One iteration of the loop: print the record, then erase it or step on.
OutRecord ==
    /\ outPc = "loop"
    /\ it \in 1..Len(foundDevices)
    /\ LET timeSince == ElapsedSince(now, foundDevices[it].lastSeen)
       IN /\ line' = Append(line, DeviceJson(foundDevices[it], timeSince))
          /\ IF IsStale(timeSince)
             THEN /\ foundDevices' = Erase(foundDevices, it)
                  /\ it' = it
                  /\ applied' =
                        [applied EXCEPT ![foundDevices[it].mac] = <<>>]
             ELSE /\ foundDevices' = foundDevices
                  /\ it' = it + 1
                  /\ applied' = applied
    /\ serialMsg' = <<>>
    /\ UNCHANGED <<packetQueue, dbMutex, hopInterval, now, procVars, outPc,
                   lastHeartbeat, hopVars, serVars, nEvents, bleVars, held,
                   sinceClear, dropped, trail, atTake, fresh, truncated>>

\* it == foundDevices.end(): Serial.println("]}") ends the line, which
\* leaves the port; the iterator ends with the loop.
OutEnd ==
    /\ outPc = "loop"
    /\ it > Len(foundDevices)
    /\ line' = <<>>
    /\ it' = 1
    /\ outPc' = "give"
    /\ sinceClear' = "none"
    /\ atTake' = <<>>
    /\ fresh' = {}
    /\ serialMsg' = <<>>
    /\ UNCHANGED <<foundDevices, packetQueue, dbMutex, hopInterval, now,
                   procVars, lastHeartbeat, hopVars, serVars, nEvents,
                   bleVars, held, applied, dropped, trail, truncated>>

\* Faulty variant of OutGive: back to vTaskDelay without xSemaphoreGive.
OutGiveKeepsLock ==
    /\ outPc = "give"
    /\ dbMutex' = dbMutex
    /\ outPc' = "delay"
    /\ serialMsg' = <<>>
    /\ UNCHANGED <<foundDevices, packetQueue, hopInterval, now, procVars,
                   lastHeartbeat, it, line, hopVars, serVars, nEvents,
                   bleVars, histVars>>

\* xSemaphoreGive, then back to vTaskDelay.
OutGive ==
    /\ outPc = "give"
    /\ dbMutex' = "none"
    /\ outPc' = "delay"
    /\ serialMsg' = <<>>
    /\ UNCHANGED <<foundDevices, packetQueue, hopInterval, now, procVars,
                   lastHeartbeat, it, line, hopVars, serVars, nEvents,
                   bleVars, histVars>>

\* ------------------------------------------------------------------------
\* hopTask
\* ------------------------------------------------------------------------
\* Faulty variant of NextChannel: the counter is not taken back to 1.
NextChannelNoWrap(c) == c + 1

\* currentChannel++; if (currentChannel > 13) currentChannel = 1;
NextChannel(c) == IF c + 1 > MAX_CHANNEL THEN 1 ELSE c + 1

\* vTaskDelay(hopInterval) returns: request the channel, advance the counter.
HopTick ==
    /\ nEvents < MaxEvents
    /\ radioChannel' = currentChannel
    /\ currentChannel' = NextChannel(currentChannel)
    /\ nEvents' = nEvents + 1
    /\ serialMsg' = <<>>
    /\ UNCHANGED <<foundDevices, packetQueue, dbMutex, hopInterval, now,
                   procVars, outVars, serVars, bleVars, histVars>>

\* ------------------------------------------------------------------------
\* serialInputTask
\* ------------------------------------------------------------------------
\* Serial.available(): cmd = Serial.readStringUntil('\n'); cmd.trim()
SerRead ==
    /\ serPc = "poll"
    /\ nEvents < MaxEvents
    /\ \E raw \in CommandLines : cmd' = Trim(raw)
    /\ serPc' = "cmd"
    /\ nEvents' = nEvents + 1
    /\ serialMsg' = <<>>
    /\ UNCHANGED <<foundDevices, packetQueue, dbMutex, hopInterval, now,
                   procVars, outVars, hopVars, bleVars, histVars>>

\* "CLEAR": go on to take the mutex.
SerClearCmd ==
    /\ serPc = "cmd"
    /\ IsClearCmd(cmd)
    /\ serPc' = "take"
    /\ serialMsg' = <<>>
    /\ UNCHANGED <<foundDevices, packetQueue, dbMutex, hopInterval, now,
                   procVars, outVars, hopVars, cmd, nEvents, bleVars,
                   histVars>>

SerTake ==
    /\ serPc = "take"
    /\ MutexFree("serial")
    /\ dbMutex' = "serial"
    /\ serPc' = "clear"
    /\ serialMsg' = <<>>
    /\ UNCHANGED <<foundDevices, packetQueue, hopInterval, now, procVars,
                   outVars, hopVars, cmd, nEvents, bleVars, histVars>>

\* Faulty variant of SerClear: the queue is reset with the table.
SerClearFlushesQueue ==
    /\ serPc = "clear"
    /\ foundDevices' = <<>>
    /\ packetQueue' = <<>>
    /\ trail' = <<>>
    /\ serialMsg' = <<"Database Cleared">>
    /\ serPc' = "give"
    /\ held' = [m \in Macs |-> {}]
    /\ sinceClear' = IF foundDevices # <<>> THEN "clean" ELSE sinceClear
    /\ applied' = [m \in Macs |-> <<>>]
    /\ fresh' = {[mac |-> e.mac, rssi |-> 0, cleared |-> TRUE] : e \in fresh}
    /\ UNCHANGED <<dbMutex, hopInterval, now, procVars, outVars, hopVars, cmd,
                   nEvents, bleVars, dropped, atTake, truncated>>

\* Faulty variant of SerClear: answers and leaves the table as it is.
SerClearKeepsTable ==
    /\ serPc = "clear"
    /\ foundDevices' = foundDevices
    /\ serialMsg' = <<"Database Cleared">>
    /\ serPc' = "give"
    /\ held' = [m \in Macs |-> {}]
    /\ sinceClear' = IF foundDevices # <<>> THEN "clean" ELSE sinceClear
    /\ applied' = [m \in Macs |-> <<>>]
    /\ fresh' = {[mac |-> e.mac, rssi |-> 0, cleared |-> TRUE] : e \in fresh}
    /\ UNCHANGED <<packetQueue, dbMutex, hopInterval, now, procVars, outVars,
                   hopVars, cmd, nEvents, bleVars, dropped, trail, atTake,
                   truncated>>

\* foundDevices.clear(); Serial.println("{\"msg\":\"Database Cleared\"}")
SerClear ==
    /\ serPc = "clear"
    /\ foundDevices' = <<>>
    /\ serialMsg' = <<"Database Cleared">>
    /\ serPc' = "give"
    /\ held' = [m \in Macs |-> {}]
    /\ sinceClear' = IF foundDevices # <<>> THEN "clean" ELSE sinceClear
    /\ applied' = [m \in Macs |-> <<>>]
    /\ fresh' = {[mac |-> e.mac, rssi |-> 0, cleared |-> TRUE] : e \in fresh}
    /\ UNCHANGED <<packetQueue, dbMutex, hopInterval, now, procVars, outVars,
                   hopVars, cmd, nEvents, bleVars, dropped, trail, atTake,
                   truncated>>

\* xSemaphoreGive; cmd ends with the block; vTaskDelay(50) back to the poll.
SerGive ==
    /\ serPc = "give"
    /\ dbMutex' = "none"
    /\ cmd' = <<>>
    /\ serPc' = "poll"
    /\ serialMsg' = <<>>
    /\ UNCHANGED <<foundDevices, packetQueue, hopInterval, now, procVars,
                   outVars, hopVars, nEvents, bleVars, histVars>>

\* "HOP_SPEED<text>": the value is parsed and tested, then set or refused.
SerHopSpeed ==
    /\ serPc = "cmd"
    /\ IsHopSpeedCmd(cmd)
    /\ LET val == HopSpeedValue(cmd)
       IN IF HopSpeedValid(val)
          THEN /\ hopInterval' = val
               /\ serialMsg' = <<"Hop Speed set to ", val, "ms">>
          ELSE /\ hopInterval' = hopInterval
               /\ serialMsg' = <<"Error: Speed must be 10-5000ms">>
    /\ cmd' = <<>>
    /\ serPc' = "poll"
    /\ UNCHANGED <<foundDevices, packetQueue, dbMutex, now, procVars, outVars,
                   hopVars, nEvents, bleVars, histVars>>

\* "RESTART": ESP.restart() reboots the chip and setup() runs again.
SerRestart ==
    /\ serPc = "cmd"
    /\ IsRestartCmd(cmd)
    /\ foundDevices' = <<>>
    /\ packetQueue' = <<>>
    /\ dbMutex' = "none"
    /\ hopInterval' = HOP_DEFAULT
    /\ now' = U32(0)
    /\ procPc' = "recv"
    /\ pkt' = NoPacket
    /\ d' = 0
    /\ outPc' = "delay"
    /\ lastHeartbeat' = U32(0)
    /\ it' = 1
    /\ line' = <<>>
    /\ currentChannel' = 1
    /\ radioChannel' = 1
    /\ serPc' = "poll"
    /\ cmd' = <<>>
    /\ serialMsg' = <<>>
    /\ nEvents' = 0
    /\ held' = [m \in Macs |-> {}]
    /\ sinceClear' = "none"
    /\ applied' = [m \in Macs |-> <<>>]
    /\ dropped' = 0
    /\ trail' = <<>>
    /\ atTake' = <<>>
    /\ fresh' = {}
    /\ truncated' = 0
    /\ deviceConnected' = FALSE
    /\ txValue' = <<>>

\* Any other line: the LED commands touch only the LED, an unknown line
\* touches nothing.
SerOther ==
    /\ serPc = "cmd"
    /\ IsOtherCmd(cmd)
    /\ cmd' = <<>>
    /\ serPc' = "poll"
    /\ serialMsg' = <<>>
    /\ UNCHANGED <<foundDevices, packetQueue, dbMutex, hopInterval, now,
                   procVars, outVars, hopVars, nEvents, bleVars, histVars>>

\* ------------------------------------------------------------------------
\* Specification
\* ------------------------------------------------------------------------
Next ==
    \/ Tick
    \/ RxCallback
    \/ ProcReceive
    \/ ProcTake
    \/ ProcScan
    \/ ProcWriteRssi
    \/ ProcWriteSeen
    \/ ProcWriteType
    \/ ProcPush
    \/ ProcGive
    \/ OutWake
    \/ OutTake
    \/ OutBegin
    \/ OutRecord
    \/ OutEnd
    \/ OutGive
    \/ HopTick
    \/ SerRead
    \/ SerClearCmd
    \/ SerTake
    \/ SerClear
    \/ SerGive
    \/ SerHopSpeed
    \/ SerRestart
    \/ SerOther

\* The firmware from boot.
Spec == Init /\ [][Next]_vars

\* The firmware one millisecond before millis() wraps (49.7 days after boot),
\* the table empty and the heartbeat just printed.
InitWrap == Idle(U32Sub(U32(0), U32(1)), <<>>, 0)
SpecWrap == InitWrap /\ [][Next]_vars

\* The firmware after a burst of data frames from one station has filled the
\* queue before the Aggregator ran; the burst has used the budget of outside
\* events but for one.
BurstPacket == MakePacket(BurstFrame)
InitBurst ==
    Idle(U32(0), [k \in 1..QUEUE_SIZE |-> BurstPacket], MaxEvents - 1)
SpecBurst == InitBurst /\ [][Next]_vars

\* The firmware when hopTask has requested the channels 1 to 12 and nothing
\* else has happened; the outside events are counted from here.
InitHop == IdleAfterHops(U32(0), <<>>, 0, MAX_CHANNEL - 1)
SpecHop == InitHop /\ [][Next]_vars

\* ------------------------------------------------------------------------
\* The BLE build (second program of the sketch)
\* ------------------------------------------------------------------------
\* MyServerCallbacks::onConnect
BleConnect ==
    /\ ~deviceConnected
    /\ deviceConnected' = TRUE
    /\ serialMsg' = <<>>
    /\ UNCHANGED <<foundDevices, packetQueue, dbMutex, hopInterval, now,
                   procVars, outVars, hopVars, serVars, nEvents, txValue,
                   histVars>>

\* MyServerCallbacks::onDisconnect
BleDisconnect ==
    /\ deviceConnected
    /\ deviceConnected' = FALSE
    /\ serialMsg' = <<>>
    /\ UNCHANGED <<foundDevices, packetQueue, dbMutex, hopInterval, now,
                   procVars, outVars, hopVars, serVars, nEvents, txValue,
                   histVars>>

\* The RawPacket the callback of the BLE build makes of a frame.
MakePacketBle(frame) ==
    [mac |-> frame.addr, rssi |-> frame.rssi,
     typeCode |-> ClassifyFrameBle(frame.fc)]

\* The callback of the BLE build: no test of the frame's length.
RxCallbackBle ==
    /\ nEvents < MaxEvents
    /\ \E frame \in Frames :
          /\ packetQueue' = QueueSend(packetQueue, MakePacketBle(frame))
          /\ dropped' =
                IF Len(packetQueue') = Len(packetQueue)
                THEN dropped + 1
                ELSE dropped
          /\ trail' =
                Append(trail,
                       Attempt(frame, MakePacketBle(frame),
                               Len(packetQueue') = Len(packetQueue)))
          /\ truncated' =
                IF Truncated(frame) THEN truncated + 1 ELSE truncated
    /\ nEvents' = nEvents + 1
    /\ serialMsg' = <<>>
    /\ UNCHANGED <<foundDevices, dbMutex, hopInterval, now, procVars, outVars,
                   hopVars, serVars, bleVars, held, sinceClear, applied,
                   atTake, fresh>>

\* typeStr of processingTask, as the typeCode outputTask's text stands for.
TypeStrBle(typeCode) ==
    IF typeCode = ROUTER THEN ROUTER
    ELSE IF typeCode = STATION THEN STATION
    ELSE UNKNOWN

\* The packet with its type as processingTask of the BLE build reads it.
PacketBle(p) == [p EXCEPT !.typeCode = TypeStrBle(p.typeCode)]

\* if (d.type == "Unknown" || typeStr == "ROUTER") d.type = typeStr;
EscalateBle(old, new) == IF old = UNKNOWN \/ new = ROUTER THEN new ELSE old

\* The type update of a known record in the BLE build.
ProcWriteTypeBle ==
    /\ procPc = "type"
    /\ d \in 1..Len(foundDevices)
    /\ foundDevices' =
          [foundDevices EXCEPT
              ![d].typeCode =
                  EscalateBle(foundDevices[d].typeCode,
                              TypeStrBle(pkt.typeCode))]
    /\ applied' =
          [applied EXCEPT
              ![foundDevices[d].mac] = Append(@, Observation(PacketBle(pkt)))]
    /\ held' =
          [held EXCEPT
              ![foundDevices[d].mac] = @ \cup {foundDevices'[d].typeCode}]
    /\ fresh' = Refreshed(fresh, pkt)
    /\ procPc' = "give"
    /\ serialMsg' = <<>>
    /\ UNCHANGED <<packetQueue, dbMutex, hopInterval, now, pkt, d, outVars,
                   hopVars, serVars, nEvents, bleVars, sinceClear, dropped,
                   trail, atTake, truncated>>

\* if (!known) { ... foundDevices.push_back(newDevice); } in the BLE build.
ProcPushBle ==
    /\ procPc = "push"
    /\ foundDevices' = Append(foundDevices, NewDevice(PacketBle(pkt), now))
    /\ applied' = [applied EXCEPT ![pkt.mac] = <<Observation(PacketBle(pkt))>>]
    /\ held' = [held EXCEPT ![pkt.mac] = @ \cup {TypeStrBle(pkt.typeCode)}]
    /\ fresh' = Refreshed(fresh, pkt)
    /\ sinceClear' = IF sinceClear = "clean" THEN "dirty" ELSE sinceClear
    /\ procPc' = "give"
    /\ serialMsg' = <<>>
    /\ UNCHANGED <<packetQueue, dbMutex, hopInterval, now, pkt, d, outVars,
                   hopVars, serVars, nEvents, bleVars, dropped, trail, atTake,
                   truncated>>

\* vTaskDelay(PRINT_INTERVAL) returns in the BLE build: nothing is printed.
OutWakeBle ==
    /\ outPc = "delay"
    /\ outPc' = "take"
    /\ serialMsg' = <<>>
    /\ UNCHANGED <<foundDevices, packetQueue, dbMutex, hopInterval, now,
                   procVars, lastHeartbeat, it, line, hopVars, serVars,
                   nEvents, bleVars, histVars>>

\* it == foundDevices.end() in the BLE build: json is complete, goes to
\* Serial with println and, when a central is connected, to the TX
\* characteristic.
OutPublishBle ==
    /\ outPc = "loop"
    /\ it > Len(foundDevices)
    /\ serialMsg' = <<"devices", line>>
    /\ txValue' = IF deviceConnected THEN line ELSE txValue
    /\ line' = <<>>
    /\ it' = 1
    /\ outPc' = "give"
    /\ sinceClear' = "none"
    /\ atTake' = <<>>
    /\ fresh' = {}
    /\ UNCHANGED <<foundDevices, packetQueue, dbMutex, hopInterval, now,
                   procVars, lastHeartbeat, hopVars, serVars, nEvents,
                   deviceConnected, held, applied, dropped, trail, truncated>>

\* The tasks and callbacks of the BLE build; those not named anew have the
\* code of the first program.
NextBle ==
    \/ Tick
    \/ RxCallbackBle
    \/ ProcReceive
    \/ ProcTake
    \/ ProcScan
    \/ ProcWriteRssi
    \/ ProcWriteSeen
    \/ ProcWriteTypeBle
    \/ ProcPushBle
    \/ ProcGive
    \/ OutWakeBle
    \/ OutTake
    \/ OutBegin
    \/ OutRecord
    \/ OutPublishBle
    \/ OutGive
    \/ HopTick
    \/ BleConnect
    \/ BleDisconnect

\* The BLE build from boot.
InitBle == Idle(U32(0), <<>>, 0)
SpecBle == InitBle /\ [][NextBle]_vars

\* ------------------------------------------------------------------------
\* Scheduling
\* ------------------------------------------------------------------------
\* The steps a task takes without waiting for another task.
ProcSteps ==
    \/ ProcScan
    \/ ProcWriteRssi
    \/ ProcWriteSeen
    \/ ProcWriteType
    \/ ProcPush
    \/ ProcGive
OutSteps == OutBegin \/ OutRecord \/ OutEnd \/ OutGive
SerSteps ==
    \/ SerClearCmd
    \/ SerClear
    \/ SerGive
    \/ SerHopSpeed
    \/ SerRestart
    \/ SerOther

\* The four tasks have priority 1 and are time-sliced: a task that can run
\* does run; xQueueReceive returns once the queue holds an item; a task
\* waiting in xSemaphoreTake gets the mutex after finitely many releases.
\* Nothing is assumed of the radio, the clock, the console or the hop delay.
TaskFairness ==
    /\ WF_vars(ProcReceive)
    /\ SF_vars(ProcTake)
    /\ WF_vars(ProcSteps)
    /\ WF_vars(OutWake)
    /\ SF_vars(OutTake)
    /\ WF_vars(OutSteps)
    /\ SF_vars(SerTake)
    /\ WF_vars(SerSteps)

\* The firmware from boot under that scheduling.
SpecFair == Init /\ [][Next]_vars /\ TaskFairness

\* The same for the BLE build.
ProcStepsBle ==
    \/ ProcScan
    \/ ProcWriteRssi
    \/ ProcWriteSeen
    \/ ProcWriteTypeBle
    \/ ProcPushBle
    \/ ProcGive
OutStepsBle == OutBegin \/ OutRecord \/ OutPublishBle \/ OutGive
TaskFairnessBle ==
    /\ WF_vars(ProcReceive)
    /\ SF_vars(ProcTake)
    /\ WF_vars(ProcStepsBle)
    /\ WF_vars(OutWakeBle)
    /\ SF_vars(OutTake)
    /\ WF_vars(OutStepsBle)
SpecBleFair == InitBle /\ [][NextBle]_vars /\ TaskFairnessBle

\* ------------------------------------------------------------------------
\* Exhausted heap
\* ------------------------------------------------------------------------
\* foundDevices.push_back(newDevice) when the vector has to grow and the
\* heap cannot supply the block: operator new does not return, the runtime
\* calls abort(), the panic handler prints its report and resets the chip,
\* and setup() runs again.
ProcPushAbort ==
    /\ procPc = "push"
    /\ foundDevices' = <<>>
    /\ packetQueue' = <<>>
    /\ dbMutex' = "none"
    /\ hopInterval' = HOP_DEFAULT
    /\ now' = U32(0)
    /\ procPc' = "recv"
    /\ pkt' = NoPacket
    /\ d' = 0
    /\ outPc' = "delay"
    /\ lastHeartbeat' = U32(0)
    /\ it' = 1
    /\ line' = <<>>
    /\ currentChannel' = 1
    /\ radioChannel' = 1
    /\ serPc' = "poll"
    /\ cmd' = <<>>
    /\ serialMsg' = <<"abort() was called">>
    /\ nEvents' = 0
    /\ held' = [m \in Macs |-> {}]
    /\ sinceClear' = "none"
    /\ applied' = [m \in Macs |-> <<>>]
    /\ dropped' = 0
    /\ trail' = <<>>
    /\ atTake' = <<>>
    /\ fresh' = {}
    /\ truncated' = 0
    /\ deviceConnected' = FALSE
    /\ txValue' = <<>>

\* Next supposes that every allocation succeeds; here one may fail.
NextLowHeap ==
    \/ Tick
    \/ RxCallback
    \/ ProcReceive
    \/ ProcTake
    \/ ProcScan
    \/ ProcWriteRssi
    \/ ProcWriteSeen
    \/ ProcWriteType
    \/ ProcPush
    \/ ProcGive
    \/ OutWake
    \/ OutTake
    \/ OutBegin
    \/ OutRecord
    \/ OutEnd
    \/ OutGive
    \/ HopTick
    \/ SerRead
    \/ SerClearCmd
    \/ SerTake
    \/ SerClear
    \/ SerGive
    \/ SerHopSpeed
    \/ SerRestart
    \/ SerOther
    \/ ProcPushAbort

\* The firmware from boot with a heap that can run out.
SpecLowHeap == Init /\ [][NextLowHeap]_vars


\* ------------------------------------------------------------------------
\* Properties
\* ------------------------------------------------------------------------
\* Rank of a classification in the order DEAUTH > ROUTER > STATION > UNKNOWN.
Prio(t) ==
    CASE t = DEAUTH -> 3
      [] t = ROUTER -> 2
      [] t = STATION -> 1
      [] OTHER -> 0

\* The highest rank among the observations of a non-empty history.
MaxPrio(obs) ==
    CHOOSE p \in {Prio(obs[k].typeCode) : k \in 1..Len(obs)} :
        \A k \in 1..Len(obs) : Prio(obs[k].typeCode) <= p

\* The last observation of a non-empty history.
Last(obs) == obs[Len(obs)]

\* A task is inside its table critical section.
ProcInCS == procPc \in {"scan", "rssi", "seen", "type", "push", "give"}
OutInCS == outPc \in {"begin", "loop", "give"}
SerInCS == serPc \in {"clear", "give"}

\* The step is the reboot that RESTART causes.
RebootStep == serPc = "cmd" /\ IsRestartCmd(cmd) /\ serPc' = "poll"

\* The Aggregator has no update of a known record under way.
NoUpdateUnderWay == procPc \notin {"seen", "type"}

\* C1: the classification of every record is the maximum, in the order
\* DEAUTH > ROUTER > STATION > UNKNOWN, of the classifications of all the
\* observations applied to it since its creation, whatever their order.
ClassificationIsMaximum ==
    \A i \in 1..Len(foundDevices) :
        LET obs == applied[foundDevices[i].mac]
        IN /\ obs # <<>>
           /\ Prio(foundDevices[i].typeCode) = MaxPrio(obs)

\* A record that took three observations, the highest in the middle.
MaximumInTheMiddle ==
    \E i \in 1..Len(foundDevices) :
        LET obs == applied[foundDevices[i].mac]
        IN /\ Len(obs) = 3
           /\ obs[1].typeCode = STATION
           /\ obs[2].typeCode = DEAUTH
           /\ obs[3].typeCode = ROUTER
           /\ foundDevices[i].typeCode = DEAUTH
           /\ procPc = "recv"

\* C2: the table never holds two records with the same address.
UniqueAddresses ==
    \A i, j \in 1..Len(foundDevices) :
        foundDevices[i].mac = foundDevices[j].mac => i = j

\* Two records in the table, the second of them observed twice.
RepeatedAndDistinct ==
    /\ Len(foundDevices) = 2
    /\ Len(applied[foundDevices[2].mac]) = 2
    /\ procPc = "recv"

\* C3: at most one task is inside its table critical section and it is the
\* holder of the mutex; outside a reboot the table changes only by a step of
\* the holder; while the Exporter holds the mutex every record is the result of
\* whole updates (its rssi is that of the last observation applied, its
\* classification the maximum), and records are only removed, never changed.
TableUnderLock ==
    /\ [](/\ ~(ProcInCS /\ OutInCS)
          /\ ~(ProcInCS /\ SerInCS)
          /\ ~(OutInCS /\ SerInCS)
          /\ ProcInCS <=> dbMutex = "proc"
          /\ OutInCS <=> dbMutex = "out"
          /\ SerInCS <=> dbMutex = "serial"
          /\ OutInCS =>
                \A i \in 1..Len(foundDevices) :
                    LET obs == applied[foundDevices[i].mac]
                    IN /\ obs # <<>>
                       /\ foundDevices[i].rssi = Last(obs).rssi
                       /\ Prio(foundDevices[i].typeCode) = MaxPrio(obs))
    /\ [][/\ (foundDevices' # foundDevices /\ ~RebootStep) =>
                \/ dbMutex = "proc" /\ procPc' # procPc
                \/ dbMutex = "out" /\ line' # line
                \/ dbMutex = "serial" /\ serPc' # serPc
          /\ (OutInCS /\ ~RebootStep) =>
                \A i \in 1..Len(foundDevices') :
                    \E j \in 1..Len(foundDevices) :
                        foundDevices'[i] = foundDevices[j]]_vars

\* The Exporter has serialized a record and is still in its pass while the
\* Aggregator waits for the mutex with a packet from that same address.
ExportWhileAggregatorWaits ==
    /\ outPc = "loop"
    /\ line # <<>>
    /\ procPc = "take"
    /\ dbMutex = "out"
    /\ macToString(pkt.mac) = line[1].mac

\* The table holds a record for the address.
HasRecord(devices, mac) == \E i \in 1..Len(devices) : devices[i].mac = mac

\* The record the table holds for the address.
RecordOf(devices, mac) ==
    devices[CHOOSE i \in 1..Len(devices) : devices[i].mac = mac]

\* The age of a record exceeds the purge threshold.
AgeExceeds(rec) == U32Gt(U32Sub(now, rec.lastSeen), U32(PURGE_INTERVAL))

\* The step is the Exporter's inspection of the record at its iterator.
Inspects ==
    /\ outPc = "loop"
    /\ it \in 1..Len(foundDevices)
    /\ Len(line') = Len(line) + 1

\* C4: a record whose age exceeds the purge threshold when the Exporter
\* inspects it is printed by that step, is in the snapshot of that pass once,
\* and is removed by the same step; an address that has no record gets one
\* only when the Aggregator inserts an observation of it, and a snapshot gains
\* objects only from records in the table.
StaleReportedOnceThenPurged ==
    /\ [](\A j, k \in 1..Len(line) : line[j].mac = line[k].mac => j = k)
    /\ [][/\ (Inspects /\ AgeExceeds(foundDevices[it])) =>
                /\ Last(line').mac = macToString(foundDevices[it].mac)
                /\ ~HasRecord(foundDevices', foundDevices[it].mac)
                /\ Len(foundDevices') = Len(foundDevices) - 1
          /\ line' # line /\ line' # <<>> =>
                /\ Inspects
                /\ SubSeq(line', 1, Len(line)) = line
                /\ Last(line').mac = macToString(foundDevices[it].mac)
          /\ \A m \in Macs :
                (~HasRecord(foundDevices, m) /\ HasRecord(foundDevices', m)) =>
                    /\ procPc = "push"
                    /\ pkt.mac = m
                    /\ procPc' = "give"]_vars

\* A pass has just printed a record older than the threshold, and the table
\* holds no record of that address any more.
StaleJustPurged ==
    /\ outPc = "loop"
    /\ line # <<>>
    /\ U32Gt(Last(line).seen_ms, U32(PURGE_INTERVAL))
    /\ \A i \in 1..Len(foundDevices) :
          macToString(foundDevices[i].mac) # Last(line).mac

\* The step is a run of the producer callback.
FrameStep == nEvents' = nEvents + 1 /\ UNCHANGED <<now, currentChannel, serPc>>

\* C5: the queue never holds more than QUEUE_SIZE packets; the callback can
\* run whoever holds the mutex and however full the queue is; it leaves the
\* mutex alone, and on a full queue it leaves the queue as it was.
QueueBoundedProducerNeverWaits ==
    /\ [](/\ Len(packetQueue) <= QUEUE_SIZE
          /\ nEvents < MaxEvents => ENABLED RxCallback)
    /\ [][FrameStep =>
             /\ dbMutex' = dbMutex
             /\ procPc' = procPc /\ outPc' = outPc
             /\ Len(packetQueue) = QUEUE_SIZE => packetQueue' = packetQueue
             /\ Len(packetQueue) < QUEUE_SIZE =>
                   \/ packetQueue' = packetQueue
                   \/ /\ Len(packetQueue') = Len(packetQueue) + 1
                      /\ SubSeq(packetQueue', 1, Len(packetQueue)) = packetQueue
            ]_vars

\* A packet was dropped on the full queue while a task held the mutex.
DroppedOnFullQueue ==
    /\ dropped > 0
    /\ Len(packetQueue) = QUEUE_SIZE
    /\ dbMutex # "none"

\* C6 as stated: a record never shows a classification of lower priority
\* than one a record of its address has held since the last CLEAR; in
\* particular an address once DEAUTH shows DEAUTH.
NeverLowerSinceClear ==
    \A i \in 1..Len(foundDevices) :
        \A t \in held[foundDevices[i].mac] :
            Prio(foundDevices[i].typeCode) >= Prio(t)

\* C6: while a record exists its classification never moves to a lower
\* priority, so a DEAUTH record stays DEAUTH; a record ends only by CLEAR, by
\* a reboot, or by the Exporter's purge when its age exceeds the threshold.
NeverLowerWhileRecordExists ==
    [][\A m \in Macs :
          /\ (HasRecord(foundDevices, m) /\ HasRecord(foundDevices', m)) =>
                Prio(RecordOf(foundDevices', m).typeCode)
                    >= Prio(RecordOf(foundDevices, m).typeCode)
          /\ (HasRecord(foundDevices, m) /\ ~HasRecord(foundDevices', m)) =>
                \/ serPc = "clear" /\ serPc' = "give"
                \/ RebootStep
                \/ /\ Inspects
                   /\ foundDevices[it].mac = m
                   /\ AgeExceeds(foundDevices[it])]_vars

\* A DEAUTH record that has since taken a ROUTER observation.
DeauthKeptAfterRouter ==
    \E i \in 1..Len(foundDevices) :
        LET obs == applied[foundDevices[i].mac]
        IN /\ Len(obs) = 2
           /\ obs[1].typeCode = DEAUTH
           /\ obs[2].typeCode = ROUTER
           /\ foundDevices[i].typeCode = DEAUTH
           /\ procPc = "recv"

\* The observations of the scenario: ROUTER at -40, then STATION at -55.
RouterThenStation ==
    <<[typeCode |-> ROUTER, rssi |-> -40], [typeCode |-> STATION, rssi |-> -55]>>

\* C7: an update of a known record writes the packet's rssi and the current
\* millis() whatever the classifications are, and keeps the stored
\* classification when the packet's has a lower priority; between updates a
\* record has the rssi of the last observation applied to it, and one that
\* took ROUTER at -40 and then STATION at -55 has rssi -55 and is ROUTER.
UpdateRefreshesKeepsHigher ==
    /\ [](NoUpdateUnderWay =>
             \A i \in 1..Len(foundDevices) :
                 LET obs == applied[foundDevices[i].mac]
                 IN /\ obs # <<>>
                    /\ foundDevices[i].rssi = Last(obs).rssi
                    /\ obs = RouterThenStation =>
                          /\ foundDevices[i].rssi = -55
                          /\ foundDevices[i].typeCode = ROUTER)
    /\ [][/\ (procPc = "rssi" /\ procPc' = "seen") =>
                foundDevices'[d].rssi = pkt.rssi
          /\ (procPc = "seen" /\ procPc' = "type") =>
                /\ foundDevices'[d].lastSeen = now
                /\ foundDevices'[d].rssi = pkt.rssi
          /\ (procPc = "type" /\ procPc' = "give") =>
                /\ foundDevices'[d].rssi = pkt.rssi
                /\ foundDevices'[d].lastSeen = foundDevices[d].lastSeen
                /\ Prio(pkt.typeCode) < Prio(foundDevices[d].typeCode) =>
                      foundDevices'[d].typeCode = foundDevices[d].typeCode
         ]_vars

\* The scenario has run: the record took ROUTER at -40, then STATION at -55.
RouterThenStationApplied ==
    \E i \in 1..Len(foundDevices) :
        /\ applied[foundDevices[i].mac] = RouterThenStation
        /\ foundDevices[i].rssi = -55
        /\ procPc = "recv"

\* The Exporter has printed the last object of a snapshot.
SnapshotComplete == outPc = "loop" /\ it > Len(foundDevices)

\* C8 as stated: the first snapshot after a CLEAR of a table with records
\* has no devices.
SnapshotAfterClearEmpty ==
    (SnapshotComplete /\ sinceClear # "none") => line = <<>>

\* C8: CLEAR leaves the table empty, and it stays empty until the Aggregator
\* inserts a record; the first snapshot after a CLEAR of a table with records
\* has no devices when no record was inserted in between.
SnapshotAfterClearEmptyIfNoInsert ==
    /\ [](/\ sinceClear = "clean" => foundDevices = <<>>
          /\ (SnapshotComplete /\ sinceClear = "clean") => line = <<>>)
    /\ [][(serPc = "clear" /\ serPc' = "give") => foundDevices' = <<>>]_vars

\* The first snapshot after a CLEAR of a table with records is complete, and
\* no record was inserted since the CLEAR.
EmptySnapshotAfterClear ==
    /\ SnapshotComplete
    /\ sinceClear = "clean"
    /\ line = <<>>

\* C9 as stated: the lastSeen of a record never decreases while the record
\* exists.
LastSeenNeverDecreases ==
    [][\A m \in Macs :
          (HasRecord(foundDevices, m) /\ HasRecord(foundDevices', m)) =>
              U32Ge(RecordOf(foundDevices', m).lastSeen,
                    RecordOf(foundDevices, m).lastSeen)]_vars

\* The argument each HOP_SPEED line of the inputs carries.
HopSpeedArgument ==
    [l \in {Trim(LineHopMin), Trim(LineHopMax), Trim(LineHopLow),
            Trim(LineHopHigh), Trim(LineHopNegative)} |->
        CASE l = Trim(LineHopMin) -> 10
          [] l = Trim(LineHopMax) -> 5000
          [] l = Trim(LineHopLow) -> 9
          [] l = Trim(LineHopHigh) -> 5001
          [] OTHER -> 0 - 20]

\* The step is the handling of a HOP_SPEED line.
HopSpeedStep == serPc = "cmd" /\ IsHopSpeedCmd(cmd) /\ serPc' = "poll"

\* The state a HOP_SPEED line must leave alone when it is refused.
restOfState ==
    <<foundDevices, packetQueue, dbMutex, now, procVars, outVars, hopVars,
      nEvents, histVars>>

\* C10: a HOP_SPEED line sets hopInterval to its argument and says so when
\* the argument is in 10..5000; otherwise (out of range, or no number) it
\* prints the error message and changes neither hopInterval nor any other
\* state; either way it touches nothing but hopInterval.
HopSpeedSetIffInRange ==
    [][HopSpeedStep =>
          LET val == HopSpeedValue(cmd)
          IN /\ cmd \in DOMAIN HopSpeedArgument => val = HopSpeedArgument[cmd]
             /\ (val >= 10 /\ val <= 5000) =>
                   /\ hopInterval' = val
                   /\ serialMsg' = <<"Hop Speed set to ", val, "ms">>
             /\ ~(val >= 10 /\ val <= 5000) =>
                   /\ hopInterval' = hopInterval
                   /\ serialMsg' = <<"Error: Speed must be 10-5000ms">>
             /\ UNCHANGED restOfState]_vars

\* A line has just been refused after the upper end of the range was set.
HopSpeedRefusedAfterSet ==
    /\ serialMsg = <<"Error: Speed must be 10-5000ms">>
    /\ hopInterval = 5000

\* The attempt was not refused.
NotRefused(e) == ~e.refused

\* The packets of the attempts that were not refused, in order.
SentOf(attempts) ==
    LET kept == SelectSeq(attempts, NotRefused)
    IN [k \in 1..Len(kept) |-> kept[k].pkt]

\* C13: every packet processingTask receives is the packet of a send attempt
\* that was not refused and that came after the attempt of the packet received
\* before it, so the packets received are a subsequence of the packets the
\* callback tried to send, in the same order, and a refused packet is never
\* received; the queue holds the packets not refused and not yet received, in
\* the order of their attempts.
ReceivedInSendOrder ==
    /\ [](SentOf(trail) = packetQueue)
    /\ [][(procPc = "recv" /\ procPc' = "take") =>
             \E k \in 1..Len(trail) :
                 /\ ~trail[k].refused
                 /\ trail[k].pkt = pkt'
                 /\ trail' = SubSeq(trail, k + 1, Len(trail))]_vars

\* A packet was refused on the full queue and processingTask has received a
\* packet since.
ReceivedAfterRefusal ==
    /\ dropped = 1
    /\ \E k \in 1..Len(trail) : trail[k].refused
    /\ Len(packetQueue) = QUEUE_SIZE - 1
    /\ procPc = "take"

\* C15: processingTask does not hold the mutex while it waits in xQueueReceive
\* and holds it only with a received packet; it takes the mutex from the point
\* after the receive, receives nothing while it holds it, gives it back at the
\* step after the one that applies the packet, and applies nothing more
\* before the next receive.
AggregatorHoldsLockForOneUpdate ==
    /\ [](/\ procPc = "recv" => dbMutex # "proc"
          /\ dbMutex = "proc" => pkt # NoPacket)
    /\ [][~RebootStep =>
             /\ (dbMutex # "proc" /\ dbMutex' = "proc") =>
                   procPc = "take" /\ pkt # NoPacket /\ pkt' = pkt
             /\ dbMutex = "proc" => Len(packetQueue') >= Len(packetQueue)
             /\ (dbMutex = "proc" /\ applied' # applied) => procPc' = "give"
             /\ (procPc = "give" /\ procPc' # "give") =>
                   /\ dbMutex' = "none"
                   /\ procPc' = "recv"
                   /\ applied' = applied
                   /\ foundDevices' = foundDevices]_vars

\* processingTask has applied a packet and waits in xQueueReceive with another
\* one queued, while outputTask holds the mutex.
AggregatorWaitsWithoutLock ==
    /\ procPc = "recv"
    /\ foundDevices # <<>>
    /\ packetQueue # <<>>
    /\ dbMutex = "out"

\* The object printed for the record shows its address, rssi and type.
Shows(obj, rec) ==
    /\ obj.mac = macToString(rec.mac)
    /\ obj.rssi = rec.rssi
    /\ obj.type = TypeName(rec.typeCode)

\* C18 as stated: a complete snapshot shows every address of which an
\* observation was applied since the snapshot before it, with the rssi of the
\* last one.
AppliedBeforeTakeIsInSnapshot ==
    SnapshotComplete =>
        \A e \in fresh :
            \E k \in 1..Len(line) :
                /\ line[k].mac = macToString(e.mac)
                /\ ~e.cleared => line[k].rssi = e.rssi

\* C18: a complete snapshot shows every address of which an observation was
\* applied since the snapshot before it, with the rssi of the last one,
\* unless a CLEAR has run after that observation.
AppliedBeforeTakeIsInSnapshotUnlessCleared ==
    SnapshotComplete =>
        \A e \in fresh :
            ~e.cleared =>
                \E k \in 1..Len(line) :
                    /\ line[k].mac = macToString(e.mac)
                    /\ line[k].rssi = e.rssi

\* A complete snapshot that shows an address with the rssi of the second
\* observation applied to its record.
SecondObservationInSnapshot ==
    /\ SnapshotComplete
    /\ \E e \in fresh :
          /\ ~e.cleared
          /\ Len(applied[e.mac]) = 2
          /\ applied[e.mac][1].rssi # e.rssi
          /\ \E k \in 1..Len(line) :
                line[k].mac = macToString(e.mac) /\ line[k].rssi = e.rssi

\* C19: during a pass the objects printed so far show, in order, the first
\* records of the table as it was when the mutex was taken, and the records
\* from the iterator on are the rest of that table; so a complete snapshot
\* shows every record of that table once, in table order.
SnapshotShowsTableAtTake ==
    /\ outPc = "loop" =>
          /\ Len(line) <= Len(atTake)
          /\ \A k \in 1..Len(line) : Shows(line[k], atTake[k])
          /\ it \in 1..(Len(foundDevices) + 1)
          /\ SubSeq(foundDevices, it, Len(foundDevices))
                = SubSeq(atTake, Len(line) + 1, Len(atTake))
    /\ SnapshotComplete => Len(line) = Len(atTake)

\* A complete snapshot of two records of which the first was stale and has
\* been erased and the second was not.
StaleBeforeFreshInSnapshot ==
    /\ SnapshotComplete
    /\ Len(line) = 2
    /\ Len(foundDevices) = 1
    /\ U32Gt(line[1].seen_ms, U32(PURGE_INTERVAL))
    /\ ~U32Gt(line[2].seen_ms, U32(PURGE_INTERVAL))

\* C14 as stated: outputTask writes no part of a snapshot to Serial while it
\* holds the mutex.
ExporterWritesWithoutLock ==
    [][(line' # line /\ line' # <<>>) =>
          dbMutex # "out" /\ dbMutex' # "out"]_vars

\* The class the decision list of the classifier gives a frame-control byte:
\* beacon, probe request, deauthentication, then the frame-type bits (bits 2
\* and 3) reading "data", else unknown.
DecisionList(frameControl) ==
    IF frameControl = 128 THEN ROUTER
    ELSE IF frameControl = 64 THEN STATION
    ELSE IF frameControl = 192 THEN DEAUTH
    ELSE IF (frameControl \div 4) % 4 = 2 THEN STATION
    ELSE UNKNOWN

\* C11: every packet the callback makes of a frame carries the class the
\* decision list gives the frame's first byte (0x80 ROUTER, 0x40 STATION,
\* 0xC0 DEAUTH, data-type bits STATION, else UNKNOWN) and, as identity, the
\* six bytes at offset 10 of the frame.
ClassifiedByDecisionList ==
    \A k \in 1..Len(trail) :
        /\ trail[k].pkt.typeCode = DecisionList(trail[k].frame.fc)
        /\ trail[k].pkt.mac = trail[k].frame.addr

\* C12: a run of the callback on a frame that ends before the last address
\* byte enqueues nothing and prints nothing; queue, send history, drop count
\* and table are as before.
TruncatedFrameDiscarded ==
    [][truncated' = truncated + 1 =>
          /\ packetQueue' = packetQueue
          /\ trail' = trail
          /\ dropped' = dropped
          /\ foundDevices' = foundDevices
          /\ serialMsg' = <<>>]_vars

\* The state setup() leaves: that of boot, and that after RESTART.
AtBoot ==
    /\ nEvents = 0
    /\ now = U32(0)
    /\ procPc = "recv"
    /\ outPc = "delay"
    /\ serPc = "poll"
    /\ packetQueue = <<>>

Heartbeat == <<"HEARTBEAT">>

\* C20: whenever more than the heartbeat interval has passed since the last
\* marker, outputTask prints the marker (unless the chip is restarted
\* first), whatever the table holds; it prints it only then, and in a step
\* in which it does not hold the mutex.
MarkerWheneverDue ==
    /\ HeartbeatDue(now, lastHeartbeat) ~> (serialMsg = Heartbeat \/ AtBoot)
    /\ [][serialMsg' = Heartbeat =>
             /\ HeartbeatDue(now, lastHeartbeat)
             /\ lastHeartbeat' = now
             /\ dbMutex # "out"
             /\ dbMutex' # "out"]_vars

\* The step is `task` giving the mutex back.
GiveStep(task) ==
    \/ task = "proc" /\ procPc = "give" /\ procPc' = "recv"
    \/ task = "out" /\ outPc = "give" /\ outPc' = "delay"
    \/ task = "serial" /\ serPc = "give" /\ serPc' = "poll"

LockTasks == {"proc", "out", "serial"}

\* C16: a task that asks for the mutex does not hold it; a task that waits
\* for a packet, for its delay or for a console line does not hold it; the
\* holder can always take a step; the mutex leaves its holder only by the
\* holder's own xSemaphoreGive (or by a restart of the chip); and every
\* holder gives it back.
LockNeverNestedAlwaysReleased ==
    /\ [](/\ procPc \in {"recv", "take"} => dbMutex # "proc"
          /\ outPc \in {"delay", "take"} => dbMutex # "out"
          /\ serPc \in {"poll", "cmd", "take"} => dbMutex # "serial"
          /\ dbMutex = "proc" => ENABLED ProcSteps
          /\ dbMutex = "out" => ENABLED OutSteps
          /\ dbMutex = "serial" => ENABLED SerSteps)
    /\ [][\A task \in LockTasks :
             (dbMutex = task /\ dbMutex' # task) =>
                 /\ dbMutex' = "none"
                 /\ GiveStep(task) \/ RebootStep]_vars
    /\ (dbMutex # "none") ~> (dbMutex = "none")

\* The CLEAR handler holds the mutex while both the Aggregator and the
\* Exporter wait for it.
BothWaitForClearHandler ==
    dbMutex = "serial" /\ procPc = "take" /\ outPc = "take"

\* C17: under TaskFairness a packet waiting in the queue is received and the
\* Aggregator, once it has a packet, gets the mutex and reaches the end of
\* its update with the packet's address and rssi in the table; a cycle of
\* the Exporter that has begun reaches its end (both unless the chip is
\* restarted first).
NoStarvation ==
    /\ [](procPc = "give" =>
            \E i \in 1..Len(foundDevices) :
                /\ foundDevices[i].mac = pkt.mac
                /\ foundDevices[i].rssi = pkt.rssi)
    /\ ((procPc = "recv" /\ packetQueue # <<>>) \/ procPc = "take")
          ~> (procPc = "give" \/ AtBoot)
    /\ (outPc # "delay") ~> (outPc = "delay")

\* The Aggregator waits for the mutex, with more packets behind the one it
\* has, while the Exporter is in its pass over a table with records.
AggregatorWaitsForExporter ==
    /\ procPc = "take"
    /\ packetQueue # <<>>
    /\ dbMutex = "out"
    /\ outPc = "loop"
    /\ foundDevices # <<>>

\* The step is one turn of hopTask's loop.
HopStep == currentChannel' # currentChannel /\ ~RebootStep

\* The channel after c in the cycle 1, 2, ..., 13, 1.
CycleNext(c) == IF c < 13 THEN c + 1 ELSE 1

\* C21: the channel hopTask requests is always in 1..13; each request names
\* the channel after the one requested before in the cycle 1, ..., 13, 1 (the
\* first request after boot names 1); the counter then stands at the channel
\* after the one requested; the step leaves the table, the mutex and the
\* queue alone.
HopCycle ==
    /\ [](radioChannel \in 1..13 /\ currentChannel \in 1..13)
    /\ [][HopStep =>
             /\ radioChannel' = currentChannel
             /\ \/ radioChannel' = CycleNext(radioChannel)
                \/ radioChannel = currentChannel /\ radioChannel' = 1
             /\ currentChannel' = CycleNext(radioChannel')
             /\ UNCHANGED <<foundDevices, dbMutex, packetQueue>>]_vars

\* Channel 13 was requested and the counter is back at 1 while the mutex is
\* held.
WrappedAfterThirteen ==
    radioChannel = 13 /\ currentChannel = 1 /\ dbMutex # "none"

\* The step is the end of an insertion that did not enter the record.
AllocationFails ==
    /\ procPc = "push"
    /\ procPc' # "push"
    /\ ~RebootStep
    /\ foundDevices' # Append(foundDevices, NewDevice(pkt, now))

\* C22: an insertion that fails for want of memory leaves the table as it
\* was, takes processingTask on to xSemaphoreGive, and ends nothing else:
\* the queue, the clock, the hop state and the other tasks are as before.
FailedInsertDiscardsObservation ==
    [][AllocationFails =>
          /\ foundDevices' = foundDevices
          /\ procPc' = "give"
          /\ UNCHANGED <<packetQueue, now, hopInterval, hopVars, outVars,
                         serVars, nEvents>>]_vars

\* The age printed for a record was above 10000 ms.
PrintedStale(obj) == U32Gt(obj.seen_ms, U32(10000))

\* The records of `table` whose printed age, in `objects`, was not above
\* 10000 ms, in the order of `table`.
KeptRecords(table, objects) ==
    LET kept == {k \in 1..Len(table) : ~PrintedStale(objects[k])}
        nth(j) == CHOOSE k \in kept : Cardinality({i \in kept : i <= k}) = j
    IN [j \in 1..Cardinality(kept) |-> table[nth(j)]]

\* C23: the inspection of a record removes that record, and no other, when
\* its age is above 10000 ms, and leaves the table as it is otherwise; at
\* the end of a pass the table is the table of the pass's start without the
\* records that were above 10000 ms when inspected, the others in their
\* order and with their fields.
PassRemovesExactlyTheStale ==
    /\ [](SnapshotComplete /\ outPc = "loop" /\ dbMutex = "out" =>
             /\ Len(line) = Len(atTake)
             /\ foundDevices = KeptRecords(atTake, line))
    /\ [][Inspects =>
             LET age == U32Sub(now, foundDevices[it].lastSeen)
             IN /\ Last(line').seen_ms = age
                /\ U32Gt(age, U32(10000)) =>
                      foundDevices' =
                          SubSeq(foundDevices, 1, it - 1)
                             \o SubSeq(foundDevices, it + 1, Len(foundDevices))
                /\ ~U32Gt(age, U32(10000)) => foundDevices' = foundDevices]_vars

\* A pass is at its end that printed two records at exactly the threshold:
\* the table holds both.
KeptAtExactlyTheThreshold ==
    /\ SnapshotComplete
    /\ dbMutex = "out"
    /\ Len(line) = 2
    /\ \A k \in 1..Len(line) : line[k].seen_ms = U32(10000)
    /\ Len(foundDevices) = 2

\* The step is one of serialInputTask's in its handling of a CLEAR line.
ClearHandlerStep ==
    /\ \/ serPc = "cmd" /\ IsClearCmd(cmd)
       \/ serPc \in {"take", "clear", "give"}
    /\ serPc' # serPc

\* The step is foundDevices.clear().
ClearStep == serPc = "clear" /\ serPc' = "give"

\* C24: the handling of a CLEAR line empties the table and changes neither
\* the queue nor the packet processingTask has in hand, nor hopInterval, nor
\* hopTask's counter and channel; an insertion after it enters a record
\* made of the packet alone; and when CLEAR ran with packets in the queue,
\* the table gets a record again (unless the chip is restarted first).
ClearEmptiesOnlyTheTable ==
    /\ [][/\ ClearHandlerStep =>
                /\ UNCHANGED <<packetQueue, pkt, hopInterval, currentChannel,
                               radioChannel, now, nEvents>>
                /\ foundDevices' = foundDevices \/ ClearStep
          /\ ClearStep => foundDevices' = <<>>
          /\ (procPc = "push" /\ procPc' = "give") =>
                foundDevices' =
                    Append(foundDevices,
                           [mac |-> pkt.mac, rssi |-> pkt.rssi,
                            lastSeen |-> now, typeCode |-> pkt.typeCode])]_vars
    /\ (serPc = "give" /\ packetQueue # <<>>)
          ~> (foundDevices # <<>> \/ AtBoot)

\* foundDevices.clear() has just emptied a table with records while a
\* packet waits in the queue.
ClearedWithPacketQueued ==
    /\ serPc = "give"
    /\ dbMutex = "serial"
    /\ foundDevices = <<>>
    /\ sinceClear = "clean"
    /\ packetQueue # <<>>

====
